---- MODULE Spec2Model ----
(***************************************************************************)
(* State model of the IPv4 / IPv6 header explorer pages.                   *)
(*                                                                         *)
(* The repository holds four copies of one React component:                *)
(*   "ipv4list"  src/unnamed/part_000 lines 1-844     IPv4OSIApp, four     *)
(*               tabs, field explanations as an always visible list        *)
(*   "ipv6copy"  src/unnamed/part_000 lines 845-1698  IPv6OSIApp, four     *)
(*               tabs, list                                                *)
(*   "ipv6page"  src/app/page.tsx                     IPv6OSIApp, four     *)
(*               tabs, list                                                *)
(*   "ipv4grid"  src/unnamed/part_001                 IPv4OSIApp, three    *)
(*               tabs, bit grid and a single detail panel                  *)
(* Each copy owns three useState cells (isDarkMode, hoveredField,          *)
(* hoveredLayer) and an uncontrolled Tabs widget that owns the active tab. *)
(***************************************************************************)
EXTENDS Integers, Sequences, FiniteSets, TLC

\* JavaScript null of the string-typed state cell hoveredField.
Null ==
  "<null>"

\* JavaScript null of the number-typed state cell hoveredLayer; no layer has
\* this number, so hoveredLayer === layer.number is false for it.
NullLayer ==
  0

\* Number of toggleTheme calls a behaviour is followed for.
MaxToggles ==
  2

(***************************************************************************)
(* Static datasets, copied from the sources.  An absent optional flag      *)
(* (isIPv4Layer?, isIPv6Layer?) is undefined in the source and FALSE here. *)
(***************************************************************************)
ipv4Fields_list ==
  << [ name |-> "Version",
       bits |-> "4 bits",
       description |-> "IP version number",
       purpose |-> "Identifies the IP version being used. For IPv4, this value is always 4.",
       example |-> "0100 (binary) = 4 (decimal)" ],
     [ name |-> "IHL",
       bits |-> "4 bits",
       description |-> "Internet Header Length",
       purpose |-> "Specifies the length of the IP header in 32-bit words (4-byte units). Minimum value is 5 (20 bytes) for a header with no options. Maximum is 15 (60 bytes).",
       example |-> "5 = 20 bytes (no options), 8 = 32 bytes (12 bytes of options)" ],
     [ name |-> "Type of Service",
       bits |-> "8 bits",
       description |-> "Type of Service (DSCP + ECN)",
       purpose |-> "Defines how the packet should be handled in terms of priority, delay, throughput, and reliability. First 6 bits are DSCP, last 2 bits are ECN.",
       example |-> "00000000 = Normal service, 10111000 = Expedited Forwarding" ],
     [ name |-> "Total Length",
       bits |-> "16 bits",
       description |-> "Total packet length",
       purpose |-> "Specifies the total length of the IP packet (header + data) in bytes. Maximum is 65,535 bytes.",
       example |-> "1500 bytes for standard Ethernet frame" ],
     [ name |-> "Identification",
       bits |-> "16 bits",
       description |-> "Unique packet identifier",
       purpose |-> "Uniquely identifies fragments of an original IP packet. All fragments have the same ID.",
       example |-> "12345 (decimal)" ],
     [ name |-> "Flags",
       bits |-> "3 bits",
       description |-> "Control fragmentation",
       purpose |-> "Controls packet fragmentation: Reserved bit (must be 0), Don't Fragment (DF), More Fragments (MF).",
       example |-> "010 = Don't Fragment set" ],
     [ name |-> "Fragment Offset",
       bits |-> "13 bits",
       description |-> "Fragment position",
       purpose |-> "Indicates where this fragment belongs in the original packet, measured in 8-byte units.",
       example |-> "0 for first fragment" ],
     [ name |-> "Time to Live",
       bits |-> "8 bits",
       description |-> "Maximum hops allowed",
       purpose |-> "Prevents infinite routing loops by limiting packet lifetime. Decremented at each hop.",
       example |-> "64 hops (common default)" ],
     [ name |-> "Protocol",
       bits |-> "8 bits",
       description |-> "Next layer protocol",
       purpose |-> "Identifies the protocol used in the data portion (TCP=6, UDP=17, ICMP=1).",
       example |-> "6 = TCP, 17 = UDP" ],
     [ name |-> "Header Checksum",
       bits |-> "16 bits",
       description |-> "Error detection",
       purpose |-> "Provides error detection for the header only. Recalculated at each hop due to TTL changes.",
       example |-> "Calculated using one's complement" ],
     [ name |-> "Source IP Address",
       bits |-> "32 bits",
       description |-> "Sender's IP address",
       purpose |-> "The IP address of the device sending the packet.",
       example |-> "192.168.1.100" ],
     [ name |-> "Destination IP Address",
       bits |-> "32 bits",
       description |-> "Receiver's IP address",
       purpose |-> "The IP address of the device that should receive the packet.",
       example |-> "8.8.8.8" ],
     [ name |-> "Options",
       bits |-> "0-40 bytes",
       description |-> "Optional header fields with padding",
       purpose |-> "Variable-length field for additional IP options like source routing, timestamps, or security. Must be padded to ensure the header length is a multiple of 32 bits.",
       example |-> "Usually empty in most packets. When present, often includes padding to align to 32-bit boundary." ] >>

ipv6Fields_copy ==
  << [ name |-> "Version",
       bits |-> "4 bits",
       description |-> "IP version number",
       purpose |-> "Identifies the IP version being used. For IPv6, this value is always 6.",
       example |-> "0110 (binary) = 6 (decimal)" ],
     [ name |-> "Traffic Class",
       bits |-> "8 bits",
       description |-> "Quality of Service (QoS) marking",
       purpose |-> "Similar to the Type of Service field in IPv4. Used for packet prioritization and congestion control. First 6 bits are DSCP, last 2 bits are ECN.",
       example |-> "00000000 = Normal service, 10111000 = Expedited Forwarding" ],
     [ name |-> "Flow Label",
       bits |-> "20 bits",
       description |-> "Packet flow identification",
       purpose |-> "Identifies packets belonging to the same flow, allowing routers to process related packets together. Helps with quality of service and real-time data.",
       example |-> "0x12345 (a unique flow identifier)" ],
     [ name |-> "Payload Length",
       bits |-> "16 bits",
       description |-> "Size of payload",
       purpose |-> "Specifies the length of the payload (data after the IPv6 header) in bytes. Does not include the header size.",
       example |-> "1440 bytes (typical payload size)" ],
     [ name |-> "Next Header",
       bits |-> "8 bits",
       description |-> "Next header type",
       purpose |-> "Identifies the type of header immediately following the IPv6 header (e.g., TCP, UDP, or an Extension Header).",
       example |-> "6 = TCP, 17 = UDP, 58 = ICMPv6" ],
     [ name |-> "Hop Limit",
       bits |-> "8 bits",
       description |-> "Maximum hops allowed",
       purpose |-> "Similar to TTL in IPv4. Prevents infinite routing loops by limiting packet lifetime. Decremented at each hop.",
       example |-> "64 hops (common default)" ],
     [ name |-> "Source Address",
       bits |-> "128 bits",
       description |-> "Sender's IPv6 address",
       purpose |-> "The IPv6 address of the device sending the packet.",
       example |-> "2001:0db8:85a3:0000:0000:8a2e:0370:7334" ],
     [ name |-> "Destination Address",
       bits |-> "128 bits",
       description |-> "Receiver's IPv6 address",
       purpose |-> "The IPv6 address of the device that should receive the packet.",
       example |-> "2001:4860:4860::8888 (Google's public DNS)" ],
     [ name |-> "Extension Headers",
       bits |-> "Variable",
       description |-> "Optional headers",
       purpose |-> "Provides additional functionality beyond the main header. Can include Hop-by-Hop Options, Routing, Fragment, Destination Options, Authentication, and Encapsulating Security Payload.",
       example |-> "Authentication Header (AH), Encapsulating Security Payload (ESP)" ] >>

ipv6Fields_page ==
  << [ name |-> "Version",
       bits |-> "4 bits",
       description |-> "IP version number",
       purpose |-> "Identifies the IP version being used. For IPv6, this value is always 6.",
       example |-> "0110 (binary) = 6 (decimal)" ],
     [ name |-> "Traffic Class",
       bits |-> "8 bits",
       description |-> "Quality of Service (QoS) marking",
       purpose |-> "Similar to the Type of Service field in IPv4. Used for packet prioritization and congestion control. First 6 bits are DSCP, last 2 bits are ECN.",
       example |-> "00000000 = Normal service, 10111000 = Expedited Forwarding" ],
     [ name |-> "Flow Label",
       bits |-> "20 bits",
       description |-> "Packet flow identification",
       purpose |-> "Identifies packets that belong to the same flow, allowing routers to process related packets together. Helps with quality of service and real-time data.",
       example |-> "0x12345 (20-bit value)" ],
     [ name |-> "Payload Length",
       bits |-> "16 bits",
       description |-> "Length of payload",
       purpose |-> "Specifies the length of the payload (data after the IPv6 header) in bytes. Does not include the header itself.",
       example |-> "1440 bytes for a typical payload" ],
     [ name |-> "Next Header",
       bits |-> "8 bits",
       description |-> "Next header type",
       purpose |-> "Identifies the type of header immediately following the IPv6 header (TCP=6, UDP=17, ICMPv6=58).",
       example |-> "6 = TCP, 17 = UDP, 58 = ICMPv6" ],
     [ name |-> "Hop Limit",
       bits |-> "8 bits",
       description |-> "Maximum hops allowed",
       purpose |-> "Prevents infinite routing loops by limiting packet lifetime. Decremented at each hop, similar to TTL in IPv4.",
       example |-> "64 hops (common default)" ],
     [ name |-> "Source Address",
       bits |-> "128 bits",
       description |-> "Sender's IPv6 address",
       purpose |-> "The IPv6 address of the device sending the packet. Four times larger than IPv4 addresses.",
       example |-> "2001:0db8:85a3:0000:0000:8a2e:0370:7334" ],
     [ name |-> "Destination Address",
       bits |-> "128 bits",
       description |-> "Receiver's IPv6 address",
       purpose |-> "The IPv6 address of the device that should receive the packet. Four times larger than IPv4 addresses.",
       example |-> "2001:4860:4860::8888 (Google's public DNS)" ],
     [ name |-> "Extension Headers",
       bits |-> "Variable",
       description |-> "Optional headers for special handling",
       purpose |-> "IPv6 uses extension headers instead of the options field in IPv4. These are placed between the IPv6 header and the upper-layer header. Common types include Hop-by-Hop Options, Routing, Fragment, Destination Options, Authentication, and Encapsulating Security Payload.",
       example |-> "Hop-by-Hop Options header (Next Header value = 0), Routing header (Next Header value = 43)" ] >>

ipv4Fields_grid ==
  << [ name |-> "Version",
       bits |-> "4 bits",
       description |-> "IP version number",
       purpose |-> "Identifies the IP version being used. For IPv4, this value is always 4.",
       example |-> "0100 (binary) = 4 (decimal)" ],
     [ name |-> "IHL",
       bits |-> "4 bits",
       description |-> "Internet Header Length",
       purpose |-> "Specifies the length of the IP header in 32-bit words. Minimum value is 5 (20 bytes).",
       example |-> "0101 (binary) = 5 words = 20 bytes" ],
     [ name |-> "Type of Service",
       bits |-> "8 bits",
       description |-> "Quality of Service parameters",
       purpose |-> "Defines the priority and type of service for the packet. Used for QoS routing decisions.",
       example |-> "00000000 = Normal service" ],
     [ name |-> "Total Length",
       bits |-> "16 bits",
       description |-> "Total packet length",
       purpose |-> "Specifies the total length of the IP packet (header + data) in bytes. Maximum is 65,535 bytes.",
       example |-> "1500 bytes for standard Ethernet frame" ],
     [ name |-> "Identification",
       bits |-> "16 bits",
       description |-> "Unique packet identifier",
       purpose |-> "Uniquely identifies fragments of an original IP packet. All fragments have the same ID.",
       example |-> "12345 (decimal)" ],
     [ name |-> "Flags",
       bits |-> "3 bits",
       description |-> "Control fragmentation",
       purpose |-> "Controls packet fragmentation: Reserved bit, Don't Fragment (DF), More Fragments (MF).",
       example |-> "010 = Don't Fragment set" ],
     [ name |-> "Fragment Offset",
       bits |-> "13 bits",
       description |-> "Fragment position",
       purpose |-> "Indicates where this fragment belongs in the original packet, measured in 8-byte units.",
       example |-> "0 for first fragment" ],
     [ name |-> "Time to Live",
       bits |-> "8 bits",
       description |-> "Maximum hops allowed",
       purpose |-> "Prevents infinite routing loops by limiting packet lifetime. Decremented at each hop.",
       example |-> "64 hops (common default)" ],
     [ name |-> "Protocol",
       bits |-> "8 bits",
       description |-> "Next layer protocol",
       purpose |-> "Identifies the protocol used in the data portion (TCP=6, UDP=17, ICMP=1).",
       example |-> "6 = TCP, 17 = UDP" ],
     [ name |-> "Header Checksum",
       bits |-> "16 bits",
       description |-> "Error detection",
       purpose |-> "Provides error detection for the header only. Recalculated at each hop due to TTL changes.",
       example |-> "Calculated using one's complement" ],
     [ name |-> "Source IP Address",
       bits |-> "32 bits",
       description |-> "Sender's IP address",
       purpose |-> "The IP address of the device sending the packet.",
       example |-> "192.168.1.100" ],
     [ name |-> "Destination IP Address",
       bits |-> "32 bits",
       description |-> "Receiver's IP address",
       purpose |-> "The IP address of the device that should receive the packet.",
       example |-> "8.8.8.8" ],
     [ name |-> "Options",
       bits |-> "0-40 bytes",
       description |-> "Optional header fields",
       purpose |-> "Variable-length field for additional IP options like source routing or timestamps.",
       example |-> "Usually empty in most packets" ] >>

osiLayers_list ==
  << [ number |-> 7, name |-> "Application Layer",
       description |-> "Network services to applications",
       protocols |-> << "HTTP", "HTTPS", "FTP", "SMTP", "DNS" >>,
       isIPLayer |-> FALSE ],
     [ number |-> 6, name |-> "Presentation Layer",
       description |-> "Data translation, encryption, compression",
       protocols |-> << "SSL/TLS", "JPEG", "GIF", "ASCII" >>,
       isIPLayer |-> FALSE ],
     [ number |-> 5, name |-> "Session Layer",
       description |-> "Establishes, manages, terminates connections",
       protocols |-> << "NetBIOS", "RPC", "SQL" >>,
       isIPLayer |-> FALSE ],
     [ number |-> 4, name |-> "Transport Layer",
       description |-> "Reliable data transfer, error recovery",
       protocols |-> << "TCP", "UDP", "SCTP" >>,
       isIPLayer |-> FALSE ],
     [ number |-> 3, name |-> "Network Layer",
       description |-> "Routing, logical addressing",
       protocols |-> << "IPv4", "IPv6", "ICMP", "OSPF" >>,
       isIPLayer |-> TRUE ],
     [ number |-> 2, name |-> "Data Link Layer",
       description |-> "Node-to-node delivery, error detection",
       protocols |-> << "Ethernet", "Wi-Fi", "PPP" >>,
       isIPLayer |-> FALSE ],
     [ number |-> 1, name |-> "Physical Layer",
       description |-> "Physical transmission of raw bits",
       protocols |-> << "Cable", "Fiber", "Radio waves" >>,
       isIPLayer |-> FALSE ] >>

osiLayers_copy ==
  << [ number |-> 7, name |-> "Application Layer",
       description |-> "Network services to applications",
       protocols |-> << "HTTP", "HTTPS", "FTP", "SMTP", "DNS" >>,
       isIPLayer |-> FALSE ],
     [ number |-> 6, name |-> "Presentation Layer",
       description |-> "Data translation, encryption, compression",
       protocols |-> << "SSL/TLS", "JPEG", "GIF", "ASCII" >>,
       isIPLayer |-> FALSE ],
     [ number |-> 5, name |-> "Session Layer",
       description |-> "Establishes, manages, terminates connections",
       protocols |-> << "NetBIOS", "RPC", "SQL" >>,
       isIPLayer |-> FALSE ],
     [ number |-> 4, name |-> "Transport Layer",
       description |-> "Reliable data transfer, error recovery",
       protocols |-> << "TCP", "UDP", "SCTP" >>,
       isIPLayer |-> FALSE ],
     [ number |-> 3, name |-> "Network Layer",
       description |-> "Routing, logical addressing",
       protocols |-> << "IPv6", "IPv4", "ICMPv6", "OSPF" >>,
       isIPLayer |-> TRUE ],
     [ number |-> 2, name |-> "Data Link Layer",
       description |-> "Node-to-node delivery, error detection",
       protocols |-> << "Ethernet", "Wi-Fi", "PPP" >>,
       isIPLayer |-> FALSE ],
     [ number |-> 1, name |-> "Physical Layer",
       description |-> "Physical transmission of raw bits",
       protocols |-> << "Cable", "Fiber", "Radio waves" >>,
       isIPLayer |-> FALSE ] >>

osiLayers_page ==
  << [ number |-> 7, name |-> "Application Layer",
       description |-> "Network services to applications",
       protocols |-> << "HTTP", "HTTPS", "FTP", "SMTP", "DNS" >>,
       isIPLayer |-> FALSE ],
     [ number |-> 6, name |-> "Presentation Layer",
       description |-> "Data translation, encryption, compression",
       protocols |-> << "SSL/TLS", "JPEG", "GIF", "ASCII" >>,
       isIPLayer |-> FALSE ],
     [ number |-> 5, name |-> "Session Layer",
       description |-> "Establishes, manages, terminates connections",
       protocols |-> << "NetBIOS", "RPC", "SQL" >>,
       isIPLayer |-> FALSE ],
     [ number |-> 4, name |-> "Transport Layer",
       description |-> "Reliable data transfer, error recovery",
       protocols |-> << "TCP", "UDP", "SCTP" >>,
       isIPLayer |-> FALSE ],
     [ number |-> 3, name |-> "Network Layer",
       description |-> "Routing, logical addressing",
       protocols |-> << "IPv6", "IPv4", "ICMPv6", "OSPF" >>,
       isIPLayer |-> TRUE ],
     [ number |-> 2, name |-> "Data Link Layer",
       description |-> "Node-to-node delivery, error detection",
       protocols |-> << "Ethernet", "Wi-Fi", "PPP" >>,
       isIPLayer |-> FALSE ],
     [ number |-> 1, name |-> "Physical Layer",
       description |-> "Physical transmission of raw bits",
       protocols |-> << "Cable", "Fiber", "Radio waves" >>,
       isIPLayer |-> FALSE ] >>

osiLayers_grid ==
  << [ number |-> 7, name |-> "Application Layer",
       description |-> "Network services to applications",
       protocols |-> << "HTTP", "HTTPS", "FTP", "SMTP", "DNS" >>,
       isIPLayer |-> FALSE ],
     [ number |-> 6, name |-> "Presentation Layer",
       description |-> "Data translation, encryption, compression",
       protocols |-> << "SSL/TLS", "JPEG", "GIF", "ASCII" >>,
       isIPLayer |-> FALSE ],
     [ number |-> 5, name |-> "Session Layer",
       description |-> "Establishes, manages, terminates connections",
       protocols |-> << "NetBIOS", "RPC", "SQL" >>,
       isIPLayer |-> FALSE ],
     [ number |-> 4, name |-> "Transport Layer",
       description |-> "Reliable data transfer, error recovery",
       protocols |-> << "TCP", "UDP", "SCTP" >>,
       isIPLayer |-> FALSE ],
     [ number |-> 3, name |-> "Network Layer",
       description |-> "Routing, logical addressing",
       protocols |-> << "IPv4", "IPv6", "ICMP", "OSPF" >>,
       isIPLayer |-> TRUE ],
     [ number |-> 2, name |-> "Data Link Layer",
       description |-> "Node-to-node delivery, error detection",
       protocols |-> << "Ethernet", "Wi-Fi", "PPP" >>,
       isIPLayer |-> FALSE ],
     [ number |-> 1, name |-> "Physical Layer",
       description |-> "Physical transmission of raw bits",
       protocols |-> << "Cable", "Fiber", "Radio waves" >>,
       isIPLayer |-> FALSE ] >>

diagramCells_list ==
  << [ enter |-> "Version", leave |-> Null ],
     [ enter |-> "IHL", leave |-> Null ],
     [ enter |-> "Type of Service", leave |-> Null ],
     [ enter |-> "Total Length", leave |-> Null ],
     [ enter |-> "Identification", leave |-> Null ],
     [ enter |-> "Flags", leave |-> Null ],
     [ enter |-> "Fragment Offset", leave |-> Null ],
     [ enter |-> "Time to Live", leave |-> Null ],
     [ enter |-> "Protocol", leave |-> Null ],
     [ enter |-> "Header Checksum", leave |-> Null ],
     [ enter |-> "Source IP Address", leave |-> Null ],
     [ enter |-> "Destination IP Address", leave |-> Null ],
     [ enter |-> "Options", leave |-> Null ] >>

diagramCells_copy ==
  << [ enter |-> "Version", leave |-> Null ],
     [ enter |-> "Traffic Class", leave |-> Null ],
     [ enter |-> "Flow Label", leave |-> Null ],
     [ enter |-> "Payload Length", leave |-> Null ],
     [ enter |-> "Next Header", leave |-> Null ],
     [ enter |-> "Hop Limit", leave |-> Null ],
     [ enter |-> "Source Address", leave |-> Null ],
     [ enter |-> "Destination Address", leave |-> Null ],
     [ enter |-> "Extension Headers", leave |-> Null ] >>

diagramCells_page ==
  << [ enter |-> "Version", leave |-> Null ],
     [ enter |-> "Traffic Class", leave |-> Null ],
     [ enter |-> "Flow Label", leave |-> Null ],
     [ enter |-> "Payload Length", leave |-> Null ],
     [ enter |-> "Next Header", leave |-> Null ],
     [ enter |-> "Hop Limit", leave |-> Null ],
     [ enter |-> "Source Address", leave |-> Null ],
     [ enter |-> "Destination Address", leave |-> Null ],
     [ enter |-> "Extension Headers", leave |-> Null ] >>

diagramCells_grid ==
  << [ enter |-> "Version", leave |-> Null ],
     [ enter |-> "IHL", leave |-> Null ],
     [ enter |-> "Type of Service", leave |-> Null ],
     [ enter |-> "Total Length", leave |-> Null ],
     [ enter |-> "Identification", leave |-> Null ],
     [ enter |-> "Flags", leave |-> Null ],
     [ enter |-> "Fragment Offset", leave |-> Null ],
     [ enter |-> "Time to Live", leave |-> Null ],
     [ enter |-> "Protocol", leave |-> Null ],
     [ enter |-> "Header Checksum", leave |-> Null ],
     [ enter |-> "Source IP Address", leave |-> Null ],
     [ enter |-> "Destination IP Address", leave |-> Null ],
     [ enter |-> "Options", leave |-> Null ] >>

(***************************************************************************)
(* The four copies and what differs between them.                          *)
(***************************************************************************)
Variants ==
  {"ipv4list", "ipv6copy", "ipv6page", "ipv4grid"}

\* The copies whose header tab shows the "Field Explanations" list.
ListVariants ==
  {"ipv4list", "ipv6copy", "ipv6page"}

\* Variant of Fields: the IHL entry of the bit-grid copy is a pasted copy of
\* the Version entry whose name was not changed.
Fields_PastedName(v) ==
  CASE v = "ipv4list" -> ipv4Fields_list
    [] v = "ipv6copy" -> ipv6Fields_copy
    [] v = "ipv6page" -> ipv6Fields_page
    [] v = "ipv4grid" -> [ ipv4Fields_grid EXCEPT ![2].name = "Version" ]

\* The header-field dataset of a copy (ipv4Fields / ipv6Fields).
Fields(v) ==
  CASE v = "ipv4list" -> ipv4Fields_list
    [] v = "ipv6copy" -> ipv6Fields_copy
    [] v = "ipv6page" -> ipv6Fields_page
    [] v = "ipv4grid" -> ipv4Fields_grid

\* Variant of osiLayers: the flag sits on the Transport layer (number 4)
\* instead of the Network layer.
osiLayers_FlagOnTransport(v) ==
  LET ls == CASE v = "ipv4list" -> osiLayers_list
              [] v = "ipv6copy" -> osiLayers_copy
              [] v = "ipv6page" -> osiLayers_page
              [] v = "ipv4grid" -> osiLayers_grid
  IN  [ ls EXCEPT ![4].isIPLayer = TRUE, ![5].isIPLayer = FALSE ]

\* The OSI dataset of a copy as declared (const osiLayers = [...]).
osiLayers(v) ==
  CASE v = "ipv4list" -> osiLayers_list
    [] v = "ipv6copy" -> osiLayers_copy
    [] v = "ipv6page" -> osiLayers_page
    [] v = "ipv4grid" -> osiLayers_grid

\* Variant of DiagramCells: the TTL cell of the bit grid passes its label
\* "TTL" instead of the dataset name "Time to Live".
DiagramCells_LabelForName(v) ==
  CASE v = "ipv4list" -> diagramCells_list
    [] v = "ipv6copy" -> diagramCells_copy
    [] v = "ipv6page" -> diagramCells_page
    [] v = "ipv4grid" ->
         [ diagramCells_grid EXCEPT ![8] = [ enter |-> "TTL", leave |-> Null ] ]

\* Variant of DiagramCells: the IPv6 page keeps the diagram of the IPv4 page
\* it was copied from.
DiagramCells_CopiedFromV4(v) ==
  CASE v = "ipv4list" -> diagramCells_list
    [] v = "ipv6copy" -> diagramCells_copy
    [] v = "ipv6page" -> diagramCells_list
    [] v = "ipv4grid" -> diagramCells_grid

\* Variant of DiagramCells: the IPv6 page draws the 128-bit source address as
\* two cells that both name "Source Address".
DiagramCells_AddressInTwoCells(v) ==
  CASE v = "ipv4list" -> diagramCells_list
    [] v = "ipv6copy" -> diagramCells_copy
    [] v = "ipv6page" -> Append(diagramCells_page,
                                [ enter |-> "Source Address", leave |-> Null ])
    [] v = "ipv4grid" -> diagramCells_grid

\* The cells of the header diagram of a copy, in document order; each cell
\* carries the literal its onMouseEnter handler passes to setHoveredField and
\* the literal its onMouseLeave handler passes.
DiagramCells(v) ==
  CASE v = "ipv4list" -> diagramCells_list
    [] v = "ipv6copy" -> diagramCells_copy
    [] v = "ipv6page" -> diagramCells_page
    [] v = "ipv4grid" -> diagramCells_grid

\* useState(false) in the IPv4 copies, useState(true) in the IPv6 copies.
InitialDarkMode(v) ==
  v \in {"ipv6copy", "ipv6page"}

\* <Tabs defaultValue=...>
DefaultTab(v) ==
  IF v = "ipv4grid" THEN "ipv4-header" ELSE "story"

\* The value of the tab that holds the header diagram.
HeaderTab(v) ==
  IF v \in {"ipv6copy", "ipv6page"} THEN "ipv6-header" ELSE "ipv4-header"

\* The values of the <TabsTrigger> elements, in order.
TabsTriggers(v) ==
  CASE v = "ipv4list" -> << "story", "ipv4-header", "osi-model", "integration" >>
    [] v = "ipv6copy" -> << "story", "ipv6-header", "osi-model", "integration" >>
    [] v = "ipv6page" -> << "story", "ipv6-header", "osi-model", "integration" >>
    [] v = "ipv4grid" -> << "ipv4-header", "osi-model", "integration" >>

\* Variant of TabsContents: the OSI content of the three-tab copy is given
\* the value "osi", which no trigger has.
TabsContents_Mismatch(v) ==
  CASE v = "ipv4list" -> << "story", "ipv4-header", "osi-model", "integration" >>
    [] v = "ipv6copy" -> << "story", "ipv6-header", "osi-model", "integration" >>
    [] v = "ipv6page" -> << "story", "ipv6-header", "osi-model", "integration" >>
    [] v = "ipv4grid" -> << "ipv4-header", "osi", "integration" >>

\* The values of the <TabsContent> elements, in order.
TabsContents(v) ==
  CASE v = "ipv4list" -> << "story", "ipv4-header", "osi-model", "integration" >>
    [] v = "ipv6copy" -> << "story", "ipv6-header", "osi-model", "integration" >>
    [] v = "ipv6page" -> << "story", "ipv6-header", "osi-model", "integration" >>
    [] v = "ipv4grid" -> << "ipv4-header", "osi-model", "integration" >>

Range(s) ==
  { s[i] : i \in DOMAIN s }

(***************************************************************************)
(* State.                                                                  *)
(***************************************************************************)
VARIABLES
  variant,       \* which copy of the component is mounted
  activeTab,     \* value held by the uncontrolled Tabs widget
  hoveredField,  \* useState<string | null>
  hoveredLayer,  \* useState<number | null>
  isDarkMode,    \* useState<boolean>: the current value of the state cell
  closureDark,   \* the isDarkMode constant captured by the toggleTheme
                 \* closure of the last committed render
  pointer,       \* the interactive element the mouse pointer is over
  osiArray,      \* the content of the module-level array osiLayers, which
                 \* JavaScript array methods can change in place
  lastOp,        \* history: the last handler that ran and its argument
  nToggles       \* history: number of toggleTheme calls so far

vars ==
  << variant, activeTab, hoveredField, hoveredLayer, isDarkMode, closureDark,
     pointer, osiArray, lastOp, nToggles >>

\* The pointer is over none of the hover-sensitive elements.
NoElement ==
  [ kind |-> "none", idx |-> 0 ]

\* The pointer is over the i-th cell of the header diagram.
Cell(i) ==
  [ kind |-> "cell", idx |-> i ]

\* The pointer is over the i-th row of the OSI Model list.
LayerRow(i) ==
  [ kind |-> "layer", idx |-> i ]

Op(op, field, layer, tab) ==
  [ op |-> op, field |-> field, layer |-> layer, tab |-> tab ]

Init ==
  /\ variant \in Variants
  /\ activeTab = DefaultTab(variant)
  /\ hoveredField = Null
  /\ hoveredLayer = NullLayer
  /\ isDarkMode = InitialDarkMode(variant)
  /\ closureDark = InitialDarkMode(variant)
  /\ pointer = NoElement
  /\ osiArray = osiLayers(variant)
  /\ lastOp = Op("mount", Null, NullLayer, Null)
  /\ nToggles = 0

(***************************************************************************)
(* The Tabs widget (components/ui/tabs, not part of the sources at hand):  *)
(* a trigger makes its value the active one, and only the content element  *)
(* whose value equals the active value is mounted.                         *)
(***************************************************************************)
\* The content regions that are mounted and visible.
VisibleRegions ==
  { i \in DOMAIN TabsContents(variant) : TabsContents(variant)[i] = activeTab }

\* The content element with value t is mounted.
TabMounted(t) ==
  \E i \in VisibleRegions : TabsContents(variant)[i] = t

\* Array.prototype.reverse() as a function of the array's content.
Reverse(s) ==
  [ i \in 1..Len(s) |-> s[Len(s) + 1 - i] ]

\* Variant of SliceReverse: reverse() without the slice() works on the array
\* itself.
SliceReverse_InPlace(arr) ==
  [ result |-> Reverse(arr), array |-> Reverse(arr) ]

\* arr.slice().reverse(): slice() copies the array and reverse() reverses the
\* copy in place; result is the value of the expression, array is what arr
\* holds afterwards.
SliceReverse(arr) ==
  [ result |-> Reverse(arr), array |-> arr ]

\* The component function runs after every state change.  Of all it
\* evaluates, only the sending list of the Integration tab applies a mutating
\* array method (the other lists use map, the panel uses find).
Render ==
  osiArray' = IF (TabMounted("integration"))'
              THEN SliceReverse(osiArray).array
              ELSE osiArray

\* Variant of SelectSection: a trigger that only works while its section is
\* not the active one.
SelectSection_OnlyInactive(t) ==
  /\ t \in Range(TabsTriggers(variant))
  /\ t # activeTab
  /\ activeTab' = t
  /\ pointer' = NoElement
  /\ lastOp' = Op("selectSection", Null, NullLayer, t)
  /\ UNCHANGED << variant, hoveredField, hoveredLayer, isDarkMode,
                  closureDark, nToggles >>
  /\ Render

\* Variant of SelectSection: the Tabs carry an onValueChange handler that
\* clears both hovers.
SelectSection_ClearsHover(t) ==
  /\ t \in Range(TabsTriggers(variant))
  /\ activeTab' = t
  /\ pointer' = IF t = activeTab THEN pointer ELSE NoElement
  /\ hoveredField' = IF t = activeTab THEN hoveredField ELSE Null
  /\ hoveredLayer' = IF t = activeTab THEN hoveredLayer ELSE NullLayer
  /\ lastOp' = Op("selectSection", Null, NullLayer, t)
  /\ UNCHANGED << variant, isDarkMode, closureDark, nToggles >>
  /\ Render

\* Activating the trigger with value t (pointer click or keyboard).  The
\* elements of the tab that is left are unmounted without a mouseleave event.
SelectSection(t) ==
  /\ t \in Range(TabsTriggers(variant))
  /\ activeTab' = t
  /\ pointer' = IF t = activeTab THEN pointer ELSE NoElement
  /\ lastOp' = Op("selectSection", Null, NullLayer, t)
  /\ UNCHANGED << variant, hoveredField, hoveredLayer, isDarkMode,
                  closureDark, nToggles >>
  /\ Render

(***************************************************************************)
(* Event handlers of the component.                                        *)
(***************************************************************************)
\* Variant of setHoveredField: a setter that ignores null.
setHoveredField_IgnoreNull(x) ==
  hoveredField' = IF x = Null THEN hoveredField ELSE x

\* setHoveredField(x): the state setter.
setHoveredField(x) ==
  hoveredField' = x

\* Variant of setHoveredLayer: the setter stores the zero-based position of
\* the layer instead of its number.
setHoveredLayer_ZeroBased(x) ==
  hoveredLayer' = IF x = NullLayer THEN x ELSE x - 1

\* setHoveredLayer(x): the state setter.
setHoveredLayer(x) ==
  hoveredLayer' = x

\* The pointer enters the i-th diagram cell: onMouseEnter of that cell.  When
\* it comes from another cell, that cell's onMouseLeave has run just before,
\* in the same event.
MouseEnterField(i) ==
  /\ TabMounted(HeaderTab(variant))
  /\ i \in DOMAIN DiagramCells(variant)
  /\ pointer # Cell(i)
  /\ pointer.kind \in {"none", "cell"}
  /\ setHoveredField(DiagramCells(variant)[i].enter)
  /\ pointer' = Cell(i)
  /\ lastOp' = Op("enterField", DiagramCells(variant)[i].enter, NullLayer, Null)
  /\ UNCHANGED << variant, activeTab, hoveredLayer, isDarkMode, closureDark,
                  nToggles >>
  /\ Render

\* The pointer leaves the diagram cell it is over: onMouseLeave of that cell.
MouseLeaveField ==
  /\ pointer.kind = "cell"
  /\ setHoveredField(DiagramCells(variant)[pointer.idx].leave)
  /\ pointer' = NoElement
  /\ lastOp' = Op("leaveField", DiagramCells(variant)[pointer.idx].enter,
                  NullLayer, Null)
  /\ UNCHANGED << variant, activeTab, hoveredLayer, isDarkMode, closureDark,
                  nToggles >>
  /\ Render

\* Variant of MouseEnterLayer: entering a row also clears the field hover, as
\* a component with a single "hovered item" would.
MouseEnterLayer_ClearsField(i) ==
  /\ TabMounted("osi-model")
  /\ i \in DOMAIN osiLayers(variant)
  /\ pointer # LayerRow(i)
  /\ pointer.kind \in {"none", "layer"}
  /\ setHoveredLayer(osiLayers(variant)[i].number)
  /\ hoveredField' = Null
  /\ pointer' = LayerRow(i)
  /\ lastOp' = Op("enterLayer", Null, osiLayers(variant)[i].number, Null)
  /\ UNCHANGED << variant, activeTab, isDarkMode, closureDark, nToggles >>
  /\ Render

\* The pointer enters the i-th row of the OSI Model list:
\* onMouseEnter={() => setHoveredLayer(layer.number)}.
MouseEnterLayer(i) ==
  /\ TabMounted("osi-model")
  /\ i \in DOMAIN osiLayers(variant)
  /\ pointer # LayerRow(i)
  /\ pointer.kind \in {"none", "layer"}
  /\ setHoveredLayer(osiLayers(variant)[i].number)
  /\ pointer' = LayerRow(i)
  /\ lastOp' = Op("enterLayer", Null, osiLayers(variant)[i].number, Null)
  /\ UNCHANGED << variant, activeTab, hoveredField, isDarkMode, closureDark,
                  nToggles >>
  /\ Render

\* The pointer leaves the OSI row it is over:
\* onMouseLeave={() => setHoveredLayer(null)}.
MouseLeaveLayer ==
  /\ pointer.kind = "layer"
  /\ setHoveredLayer(NullLayer)
  /\ pointer' = NoElement
  /\ lastOp' = Op("leaveLayer", Null, osiLayers(variant)[pointer.idx].number,
                  Null)
  /\ UNCHANGED << variant, activeTab, hoveredField, isDarkMode, closureDark,
                  nToggles >>
  /\ Render

\* const toggleTheme = () => { setIsDarkMode(!isDarkMode) }: isDarkMode is
\* the constant of the render that created the closure.
toggleTheme ==
  /\ nToggles < MaxToggles
  /\ isDarkMode' = ~closureDark
  /\ nToggles' = nToggles + 1
  /\ lastOp' = Op("toggleTheme", Null, NullLayer, Null)
  /\ UNCHANGED << variant, activeTab, hoveredField, hoveredLayer, closureDark,
                  pointer >>
  /\ Render

\* React commits the pending re-render: the component function runs again
\* and the handlers close over the current state.
Rerender ==
  /\ closureDark # isDarkMode
  /\ closureDark' = isDarkMode
  /\ UNCHANGED << variant, activeTab, hoveredField, hoveredLayer, isDarkMode,
                  pointer, lastOp, nToggles >>
  /\ Render

\* Variant of Reload: the theme survives the reload, as it would were it
\* written to storage.
Reload_KeepsTheme ==
  /\ activeTab' = DefaultTab(variant)
  /\ hoveredField' = Null
  /\ hoveredLayer' = NullLayer
  /\ isDarkMode' = isDarkMode
  /\ closureDark' = isDarkMode
  /\ pointer' = NoElement
  /\ osiArray' = osiLayers(variant)
  /\ nToggles' = 0
  /\ lastOp' = Op("reload", hoveredField, hoveredLayer, activeTab)
  /\ UNCHANGED variant

\* The page is loaded again: the module is evaluated afresh and the component
\* is constructed from its useState initialisers and the Tabs defaultValue;
\* nothing is read from storage.  lastOp keeps what was hovered and which
\* section was active before the reload.
Reload ==
  /\ activeTab' = DefaultTab(variant)
  /\ hoveredField' = Null
  /\ hoveredLayer' = NullLayer
  /\ isDarkMode' = InitialDarkMode(variant)
  /\ closureDark' = InitialDarkMode(variant)
  /\ pointer' = NoElement
  /\ osiArray' = osiLayers(variant)
  /\ nToggles' = 0
  /\ lastOp' = Op("reload", hoveredField, hoveredLayer, activeTab)
  /\ UNCHANGED variant

\* A click event is dispatched to the i-th diagram cell (mouse button, tap
\* or element.click()).  The cell has onMouseEnter and onMouseLeave and no
\* onClick, and none of its ancestors has one: no setter runs.
ClickField(i) ==
  /\ TabMounted(HeaderTab(variant))
  /\ i \in DOMAIN DiagramCells(variant)
  /\ lastOp' = Op("clickField", DiagramCells(variant)[i].enter, NullLayer, Null)
  /\ UNCHANGED << variant, activeTab, hoveredField, hoveredLayer, isDarkMode,
                  closureDark, pointer, nToggles >>
  /\ Render

Next ==
  \/ \E t \in Range(TabsTriggers(variant)) : SelectSection(t)
  \/ \E i \in DOMAIN DiagramCells(variant) : MouseEnterField(i)
  \/ MouseLeaveField
  \/ \E i \in DOMAIN osiLayers(variant) : MouseEnterLayer(i)
  \/ MouseLeaveLayer
  \/ toggleTheme
  \/ Rerender
  \/ Reload
  \/ \E i \in DOMAIN DiagramCells(variant) : ClickField(i)

Spec ==
  Init /\ [][Next]_vars

(***************************************************************************)
(* The rendered view, as the JSX computes it from the state.               *)
(***************************************************************************)
\* JavaScript truthiness of a string | null value, as used by
\* {hoveredField && ...} and {field.example && ...}.
Truthy(s) ==
  s # Null /\ s # ""

\* fs.find((f) => f.name === x): the first entry named x, as a sequence of
\* length one, or the empty sequence for undefined.
Find(fs, x) ==
  LET hits == { i \in DOMAIN fs : fs[i].name = x }
  IN  IF hits = {} THEN << >>
      ELSE << fs[CHOOSE i \in hits : \A j \in hits : i <= j] >>

\* Variant of FieldText: the example box is left out.
FieldText_NoExample(f) ==
  [ bits |-> f.bits, name |-> f.name, description |-> f.description,
    purpose |-> f.purpose, example |-> << >> ]

\* What a card or the panel prints of a field: bits, name, description,
\* purpose and, when field.example is truthy, the example box.
FieldText(f) ==
  [ bits |-> f.bits, name |-> f.name, description |-> f.description,
    purpose |-> f.purpose,
    example |-> IF Truthy(f.example) THEN << f.example >> ELSE << >> ]

\* Variant of CardEmphasized: the test forgets the comparison with the card's
\* own name, so every card is emphasized while any field is hovered.
CardEmphasized_AnyHover(f) ==
  hoveredField # Null

\* The className test of a card of the list: hoveredField === field.name.
CardEmphasized(f) ==
  hoveredField = f.name

\* Variant of FieldCards: the list is placed outside the header tab's
\* content, so it is rendered whatever tab is active.
FieldCards_OutsideTabs ==
  IF variant \in ListVariants
  THEN [ i \in DOMAIN Fields(variant) |->
           [ text |-> FieldText(Fields(variant)[i]),
             emphasized |-> CardEmphasized(Fields(variant)[i]) ] ]
  ELSE << >>

\* Variant of FieldCards: the list renders only the card of the hovered
\* field, as the detail panel of the grid variant does.
FieldCards_OnlyHovered ==
  IF variant \in ListVariants /\ TabMounted(HeaderTab(variant))
  THEN LET shown == SelectSeq(Fields(variant), CardEmphasized)
       IN  [ i \in DOMAIN shown |->
               [ text |-> FieldText(shown[i]), emphasized |-> TRUE ] ]
  ELSE << >>

\* The "Field Explanations" list of the list variants:
\* {ipv4Fields.map((field) => <Card ...>)}.
FieldCards ==
  IF variant \in ListVariants /\ TabMounted(HeaderTab(variant))
  THEN [ i \in DOMAIN Fields(variant) |->
           [ text |-> FieldText(Fields(variant)[i]),
             emphasized |-> CardEmphasized(Fields(variant)[i]) ] ]
  ELSE << >>

\* Variant of PanelRendered: the card is rendered without the hoveredField
\* guard.
PanelRendered_Unguarded ==
  /\ variant \notin ListVariants
  /\ TabMounted(HeaderTab(variant))

\* The "Field Details" card of the grid variant: {hoveredField && (<Card ...>)}.
PanelRendered ==
  /\ variant \notin ListVariants
  /\ TabMounted(HeaderTab(variant))
  /\ Truthy(hoveredField)

\* The content of the card: field ? <div>...</div> : null.
PanelContent ==
  IF PanelRendered
  THEN LET field == Find(Fields(variant), hoveredField)
       IN  IF field # << >> THEN << FieldText(field[1]) >> ELSE << >>
  ELSE << >>

\* The i-th diagram cell shows its hover colour.  The className of a cell is
\* a constant string; its hover: classes apply while the pointer is over it.
CellHovered(i) ==
  TabMounted(HeaderTab(variant)) /\ pointer = Cell(i)

\* The i-th entry of the dataset is shown highlighted in the explanations:
\* its card is emphasized (list) or it is the one the panel shows (grid).
FieldMarked(i) ==
  IF variant \in ListVariants
  THEN FieldCards # << >> /\ FieldCards[i].emphasized
  ELSE /\ PanelContent # << >>
       /\ Find(Fields(variant), hoveredField) = << Fields(variant)[i] >>

\* The entries shown highlighted in the explanations.
HighlightedFields ==
  { i \in DOMAIN Fields(variant) : FieldMarked(i) }

\* The diagram cells that show their hover colour.
HoveredCells ==
  { i \in DOMAIN DiagramCells(variant) : CellHovered(i) }

\* The entries of the dataset named x.
Named(x) ==
  { i \in DOMAIN Fields(variant) : Fields(variant)[i].name = x }

\* The text of the badge that marks the focus layer in the OSI Model tab.
FocusBadgeText(v) ==
  IF v \in {"ipv6copy", "ipv6page"} THEN "IPv6 Layer" ELSE "IPv4 Layer"

\* Variant of LayerFocusStyled: the focus colours are dropped while the row
\* is hovered.
LayerFocusStyled_UnlessHovered(layer) ==
  layer.isIPLayer /\ hoveredLayer # layer.number

\* The className and badge test of an OSI row: layer.isIPv4Layer (or
\* layer.isIPv6Layer) selects the blue border, the "default" number badge and
\* the extra badge.
LayerFocusStyled(layer) ==
  layer.isIPLayer

\* Variant of LayerEmphasized: the row is emphasized while the pointer is
\* over it, as a CSS hover: class would do, whatever hoveredLayer holds.
LayerEmphasized_ByPointer(layer) ==
  /\ pointer.kind = "layer"
  /\ osiArray[pointer.idx].number = layer.number

\* The second className test of an OSI row: hoveredLayer === layer.number
\* adds "scale-105 shadow-lg".
LayerEmphasized(layer) ==
  hoveredLayer = layer.number

\* The rows of the OSI Model tab: {osiLayers.map((layer) => <div ...>)}.
OsiRows ==
  IF TabMounted("osi-model")
  THEN [ i \in DOMAIN osiArray |->
           LET layer == osiArray[i]
           IN  [ number |-> layer.number,
                 name |-> layer.name,
                 description |-> layer.description,
                 protocols |-> layer.protocols,
                 focusStyle |-> LayerFocusStyled(layer),
                 numberBadge |-> IF LayerFocusStyled(layer) THEN "default"
                                 ELSE "secondary",
                 focusBadge |-> IF LayerFocusStyled(layer)
                                THEN << FocusBadgeText(variant) >> ELSE << >>,
                 emphasized |-> LayerEmphasized(layer) ] ]
  ELSE << >>

\* The rows of the OSI Model tab that are emphasized.
EmphasizedLayers ==
  { i \in DOMAIN OsiRows : OsiRows[i].emphasized }

\* Variant of LayerRowText: the label is printed without the test of the
\* layer's flag.
LayerRowText_NoFlagTest(layer, label) ==
  [ number |-> layer.number, name |-> layer.name, label |-> << label >> ]

\* One row of a list of the Integration tab: the number badge, the name and,
\* for the layer with the isIPv4Layer / isIPv6Layer flag, the label.
LayerRowText(layer, label) ==
  [ number |-> layer.number, name |-> layer.name,
    label |-> IF layer.isIPLayer THEN << label >> ELSE << >> ]

\* The list under the heading "Sending (Top to Bottom)":
\* osiLayers.slice().reverse().map(...).
SendingList ==
  IF TabMounted("integration")
  THEN LET ls == SliceReverse(osiArray).result
       IN  [ i \in DOMAIN ls |-> LayerRowText(ls[i], "Header Added") ]
  ELSE << >>

\* The list under the heading "Receiving (Bottom to Top)":
\* osiLayers.map(...).
ReceivingList ==
  IF TabMounted("integration")
  THEN LET ls == osiArray
       IN  [ i \in DOMAIN ls |-> LayerRowText(ls[i], "Header Processed") ]
  ELSE << >>

\* The numbers shown by a list, top to bottom.
Numbers(rows) ==
  [ i \in DOMAIN rows |-> rows[i].number ]

(***************************************************************************)
(* Properties.                                                             *)
(***************************************************************************)

\* C1: after setHoveredField(N) for a name N of the dataset, the view marks
\* exactly the one field N as highlighted and every other field as normal.
C1_ExactlyHoveredFieldMarked ==
  (lastOp.op = "enterField" /\ Named(lastOp.field) # {})
    => /\ HighlightedFields = Named(lastOp.field)
       /\ Cardinality(HighlightedFields) = 1

C1_Witness ==
  /\ lastOp.op = "enterField"
  /\ lastOp.field = "Hop Limit"
  /\ variant = "ipv6page"
  /\ HighlightedFields = {6}

\* C2: after the pointer-leave handler of any field, hoveredField is null, no
\* card is emphasized, no field is highlighted and no detail panel is rendered.
C2_LeaveClearsHighlight ==
  lastOp.op = "leaveField"
    => /\ hoveredField = Null
       /\ HighlightedFields = {}
       /\ \A i \in DOMAIN FieldCards : ~FieldCards[i].emphasized
       /\ ~PanelRendered

C2_Witness ==
  /\ lastOp.op = "leaveField"
  /\ lastOp.field = "Flags"
  /\ hoveredField = Null
  /\ nToggles > 0

\* C3: hoveredField is null or the name of exactly one entry of the dataset
\* of the mounted copy.
C3_HoveredFieldNamesOneEntry ==
  hoveredField = Null \/ Cardinality(Named(hoveredField)) = 1

C3_Witness ==
  /\ hoveredField = "Extension Headers"
  /\ activeTab = "integration"
  /\ isDarkMode = FALSE

\* C4 (as stated): while hoveredField holds N and the header tab is shown,
\* the state marks N, and only N, in both places: the diagram cell of N shows
\* its highlight and the explanation of N is highlighted.
C4_Original ==
  (TabMounted(HeaderTab(variant)) /\ hoveredField # Null)
    => /\ HighlightedFields = Named(hoveredField)
       /\ HoveredCells = { i \in DOMAIN DiagramCells(variant) :
                             DiagramCells(variant)[i].enter = hoveredField }

\* C4 (amended): while hoveredField holds N and the header tab is shown,
\* exactly the explanation of N is highlighted, from the state; a diagram
\* cell is highlighted only by the pointer being over it, the highlighted
\* cell is always the cell of the hovered field, and right after a
\* pointer-enter on N it is the one cell of N.
C4_ExplanationFromStateCellFromPointer ==
  /\ (TabMounted(HeaderTab(variant)) /\ hoveredField # Null)
       => /\ HighlightedFields = Named(hoveredField)
          /\ Cardinality(HighlightedFields) = 1
  /\ \A i \in HoveredCells : DiagramCells(variant)[i].enter = hoveredField
  /\ lastOp.op = "enterField"
       => /\ Cardinality(HoveredCells) = 1
          /\ \A i \in HoveredCells :
               DiagramCells(variant)[i].enter = lastOp.field

C4_Witness ==
  /\ lastOp.op = "enterField"
  /\ variant = "ipv4grid"
  /\ HoveredCells = {8}
  /\ HighlightedFields = {8}

\* C5: exactly one section is active in every state, it is one of the
\* variant's section identifiers, every one of them can be selected from any
\* state, and after selectSection(S) the active section is S and exactly the
\* content region of S is visible.
C5_SelectSectionShowsExactlyThatRegion ==
  /\ Cardinality(VisibleRegions) = 1
  /\ activeTab \in Range(TabsTriggers(variant))
  /\ Range(TabsTriggers(variant)) =
       IF variant = "ipv4grid"
       THEN { HeaderTab(variant), "osi-model", "integration" }
       ELSE { "story", HeaderTab(variant), "osi-model", "integration" }
  /\ \A t \in Range(TabsTriggers(variant)) : ENABLED SelectSection(t)
  /\ lastOp.op = "selectSection"
       => /\ activeTab = lastOp.tab
          /\ \A i \in DOMAIN TabsContents(variant) :
               i \in VisibleRegions <=> TabsContents(variant)[i] = lastOp.tab

C5_Witness ==
  /\ lastOp.op = "selectSection"
  /\ lastOp.tab = "osi-model"
  /\ variant = "ipv4grid"
  /\ hoveredField = "Version"

\* C6: every toggleTheme call flips isDarkMode, so two calls give back the
\* value before the first one, also when both calls are made by the closure
\* of one render.
C6_ToggleTwiceRestores ==
  isDarkMode <=> (InitialDarkMode(variant) <=> nToggles % 2 = 0)

C8_AllCardsAlwaysRendered ==
  (variant \in ListVariants /\ TabMounted(HeaderTab(variant)))
    => /\ Len(FieldCards) = Len(Fields(variant))
       /\ Len(FieldCards) = IF variant = "ipv4list" THEN 13 ELSE 9
       /\ \A i \in DOMAIN Fields(variant) :
            /\ FieldCards[i].text.name = Fields(variant)[i].name
            /\ FieldCards[i].text.purpose = Fields(variant)[i].purpose
            /\ FieldCards[i].emphasized <=> hoveredField = Fields(variant)[i].name
       /\ Cardinality({ i \in DOMAIN FieldCards : FieldCards[i].emphasized }) <= 1

C8_Witness ==
  /\ variant = "ipv4list"
  /\ TabMounted(HeaderTab(variant))
  /\ hoveredField = "IHL"
  /\ Len(FieldCards) = 13
  /\ FieldCards[2].emphasized

(***************************************************************************)
(* The view as a function of an arbitrary hoveredField value: the state    *)
(* cell is typed string | null, so the render code accepts any string.     *)
(***************************************************************************)
\* A string that names no field of any dataset.
AbsentName ==
  "Bogus"

\* The hoveredField values the view is evaluated for.
HoverInputs(v) ==
  { Fields(v)[i].name : i \in DOMAIN Fields(v) } \cup { Null, "", AbsentName }

InitAnyHover ==
  /\ variant \in Variants
  /\ activeTab \in Range(TabsTriggers(variant))
  /\ hoveredField \in HoverInputs(variant)
  /\ hoveredLayer = NullLayer
  /\ isDarkMode = InitialDarkMode(variant)
  /\ closureDark = InitialDarkMode(variant)
  /\ pointer = NoElement
  /\ osiArray = osiLayers(variant)
  /\ lastOp = Op("mount", Null, NullLayer, Null)
  /\ nToggles = 0

SpecAnyHover ==
  InitAnyHover /\ [][Next]_vars

C10_SendingDescendingReceivingAscending ==
  TabMounted("integration")
    => /\ Numbers(SendingList) = << 7, 6, 5, 4, 3, 2, 1 >>
       /\ Numbers(ReceivingList) = << 1, 2, 3, 4, 5, 6, 7 >>

\* The rows of a list that carry the directional label.
Annotated(rows) ==
  { i \in DOMAIN rows : rows[i].label # << >> }

\* C11: exactly one of the seven layers of the dataset carries the focus
\* flag; the sending and the receiving list show the same seven layers, each
\* list the reverse of the other, and in both only the row of that layer is
\* annotated, with "Header Added" in the sending list and "Header Processed"
\* in the receiving list.
C11_OneFocusLayerSameInBothLists ==
  LET focus == { i \in DOMAIN osiLayers(variant) : osiLayers(variant)[i].isIPLayer }
  IN  /\ Len(osiLayers(variant)) = 7
      /\ Cardinality(focus) = 1
      /\ TabMounted("integration")
           => /\ Len(SendingList) = 7
              /\ Len(ReceivingList) = 7
              /\ Numbers(SendingList) = Reverse(Numbers(ReceivingList))
              /\ \A i \in 1..7 : SendingList[i].name = ReceivingList[8 - i].name
              /\ Range(Numbers(SendingList)) = { osiLayers(variant)[i].number : i \in 1..7 }
              /\ Cardinality(Annotated(SendingList)) = 1
              /\ Cardinality(Annotated(ReceivingList)) = 1
              /\ \A i \in Annotated(SendingList) :
                   /\ SendingList[i].label = << "Header Added" >>
                   /\ \A k \in focus : SendingList[i].number = osiLayers(variant)[k].number
              /\ \A i \in Annotated(ReceivingList) :
                   /\ ReceivingList[i].label = << "Header Processed" >>
                   /\ \A k \in focus : ReceivingList[i].number = osiLayers(variant)[k].number

C11_Witness ==
  /\ TabMounted("integration")
  /\ variant = "ipv6copy"
  /\ Annotated(SendingList) = {3}
  /\ Annotated(ReceivingList) = {5}

\* C12: the OSI Model view lists the layers 7,6,5,4,3,2,1 in every state, and
\* the focus layer, and no other layer, has the focus styling and the extra
\* badge whatever hoveredLayer is.
C12_OsiOrderAndFocusStyling ==
  TabMounted("osi-model")
    => /\ Numbers(OsiRows) = << 7, 6, 5, 4, 3, 2, 1 >>
       /\ \A i \in DOMAIN OsiRows :
            /\ OsiRows[i].focusStyle <=> osiLayers(variant)[i].isIPLayer
            /\ OsiRows[i].focusBadge # << >> <=> osiLayers(variant)[i].isIPLayer
            /\ OsiRows[i].numberBadge = "default" <=> osiLayers(variant)[i].isIPLayer
       /\ Cardinality({ i \in DOMAIN OsiRows : OsiRows[i].focusStyle }) = 1

C12_Witness ==
  /\ TabMounted("osi-model")
  /\ hoveredLayer = 3
  /\ OsiRows[5].focusStyle
  /\ OsiRows[5].emphasized
  /\ OsiRows[5].focusBadge = << "IPv4 Layer" >>

\* C13: hoveredLayer is null or a number in 1..7 that is the number of
\* exactly one layer; after setHoveredLayer(n) exactly the row of layer n is
\* emphasized, after setHoveredLayer(none) no row is.
C13_HoveredLayerInRange ==
  /\ \/ hoveredLayer = NullLayer
     \/ /\ hoveredLayer \in 1..7
        /\ Cardinality({ i \in DOMAIN osiLayers(variant) :
                           osiLayers(variant)[i].number = hoveredLayer }) = 1
  /\ lastOp.op = "enterLayer"
       => /\ lastOp.layer \in 1..7
          /\ hoveredLayer = lastOp.layer
          /\ EmphasizedLayers = { i \in DOMAIN OsiRows :
                                    OsiRows[i].number = lastOp.layer }
          /\ Cardinality(EmphasizedLayers) = 1
  /\ lastOp.op = "leaveLayer"
       => /\ hoveredLayer = NullLayer
          /\ EmphasizedLayers = {}

C13_Witness ==
  /\ lastOp.op = "enterLayer"
  /\ lastOp.layer = 1
  /\ EmphasizedLayers = {7}
  /\ hoveredField # Null

\* C14: while the Integration section is active the view shows no field
\* highlight, whatever hoveredField and hoveredLayer hold: no card, no panel,
\* no highlighted cell and no emphasized layer, and its two lists are the
\* ones computed from the dataset alone.
C14_IntegrationShowsNoHighlight ==
  TabMounted("integration")
    => /\ HighlightedFields = {}
       /\ HoveredCells = {}
       /\ FieldCards = << >>
       /\ ~PanelRendered
       /\ PanelContent = << >>
       /\ EmphasizedLayers = {}
       /\ \A i \in 1..7 :
            /\ ReceivingList[i] =
                 [ number |-> osiLayers(variant)[i].number,
                   name |-> osiLayers(variant)[i].name,
                   label |-> IF osiLayers(variant)[i].isIPLayer
                             THEN << "Header Processed" >> ELSE << >> ]
            /\ SendingList[i] =
                 [ number |-> osiLayers(variant)[8 - i].number,
                   name |-> osiLayers(variant)[8 - i].name,
                   label |-> IF osiLayers(variant)[8 - i].isIPLayer
                             THEN << "Header Added" >> ELSE << >> ]

C14_Witness ==
  /\ TabMounted("integration")
  /\ lastOp.op = "selectSection"
  /\ hoveredField = "Time to Live"
  /\ variant = "ipv4list"

\* The texts the explanations show for the highlighted field: the text of
\* the emphasized cards (list) or of the panel (grid).
SurfacedTexts ==
  IF variant \in ListVariants
  THEN { FieldCards[i].text : i \in { k \in DOMAIN FieldCards : FieldCards[k].emphasized } }
  ELSE Range(PanelContent)

\* C15: in both IPv4 variants, after setHoveredField("Time to Live") the
\* highlighted card, or the detail panel, shows the text "Prevents infinite
\* routing loops by limiting packet lifetime. Decremented at each hop." and
\* the example "64 hops (common default)".
C15_TimeToLiveTexts ==
  ( /\ variant \in {"ipv4list", "ipv4grid"}
    /\ lastOp.op = "enterField"
    /\ lastOp.field = "Time to Live" )
    => /\ Cardinality(SurfacedTexts) = 1
       /\ \A t \in SurfacedTexts :
            /\ t.name = "Time to Live"
            /\ t.purpose = "Prevents infinite routing loops by limiting packet lifetime. Decremented at each hop."
            /\ t.example = << "64 hops (common default)" >>

C15_Witness ==
  /\ variant = "ipv4grid"
  /\ lastOp.op = "enterField"
  /\ lastOp.field = "Time to Live"
  /\ PanelRendered
  /\ PanelContent[1].bits = "8 bits"

\* The entries of the OSI dataset of the mounted copy with number n.
LayersNumbered(n) ==
  { i \in DOMAIN osiLayers(variant) : osiLayers(variant)[i].number = n }

\* C16 (as stated): in every OSI dataset the layer with number 3 has the
\* focus flag and its protocol list includes both "IPv4" and "ICMP".
C16_Original ==
  /\ LayersNumbered(3) # {}
  /\ \A i \in LayersNumbered(3) :
       /\ osiLayers(variant)[i].isIPLayer
       /\ "IPv4" \in Range(osiLayers(variant)[i].protocols)
       /\ "ICMP" \in Range(osiLayers(variant)[i].protocols)

\* C16 (amended): in every OSI dataset the layer with number 3 has the focus
\* flag and its protocol list includes "IPv4"; it includes "ICMP" in the two
\* IPv4 variants, and "ICMPv6" but not "ICMP" in the two IPv6 copies.
C16_Layer3FocusAndProtocols ==
  /\ LayersNumbered(3) # {}
  /\ \A i \in LayersNumbered(3) :
       /\ osiLayers(variant)[i].isIPLayer
       /\ "IPv4" \in Range(osiLayers(variant)[i].protocols)
       /\ IF variant \in {"ipv4list", "ipv4grid"}
          THEN "ICMP" \in Range(osiLayers(variant)[i].protocols)
          ELSE /\ "ICMPv6" \in Range(osiLayers(variant)[i].protocols)
               /\ "ICMP" \notin Range(osiLayers(variant)[i].protocols)

C16_Witness ==
  /\ variant = "ipv6page"
  /\ TabMounted("osi-model")
  /\ hoveredLayer = 3
  /\ OsiRows[5].protocols = << "IPv6", "IPv4", "ICMPv6", "OSPF" >>

\* C17: the static data is never changed: after any sequence of operations
\* and renders, the Integration view with its reversed sending list included,
\* the osiLayers array still holds the declared entries in the declared
\* order, so the OSI Model view and the receiving list keep their order.
C17_DatasetsNeverMutated ==
  /\ osiArray = osiLayers(variant)
  /\ TabMounted("osi-model")
       => Numbers(OsiRows) = Numbers(osiLayers(variant))
  /\ TabMounted("integration")
       => /\ Numbers(ReceivingList) = Numbers(osiLayers(variant))
          /\ Numbers(SendingList) = Reverse(Numbers(osiLayers(variant)))

C17_Witness ==
  /\ TabMounted("integration")
  /\ lastOp.op = "toggleTheme"
  /\ nToggles = 2
  /\ Numbers(ReceivingList) = << 7, 6, 5, 4, 3, 2, 1 >>

\* C18: in the dataset of every copy the field names are pairwise distinct,
\* and the layer numbers are pairwise distinct, are exactly 1..7 and appear
\* in one monotone order.
C18_NamesAndNumbersUnique ==
  LET fs == Fields(variant)
      ns == Numbers(osiLayers(variant))
  IN  /\ \A i, j \in DOMAIN fs : fs[i].name = fs[j].name => i = j
      /\ \A i, j \in DOMAIN ns : ns[i] = ns[j] => i = j
      /\ Range(ns) = 1..7
      /\ \/ \A i \in 1..(Len(ns) - 1) : ns[i] > ns[i + 1]
         \/ \A i \in 1..(Len(ns) - 1) : ns[i] < ns[i + 1]

C18_Witness ==
  /\ variant = "ipv6copy"
  /\ hoveredField = "Destination Address"
  /\ hoveredLayer = 1
  /\ Cardinality(Named(hoveredField)) = 1

(***************************************************************************)
(* The theme, as the JSX derives it from isDarkMode.                       *)
(***************************************************************************)
\* The class names of the root <div>: the fixed ones and
\* isDarkMode ? "dark bg-gray-900 text-white" : "bg-gray-50 text-gray-900".
RootClasses ==
  { "min-h-screen", "transition-colors", "duration-300" }
    \cup IF isDarkMode THEN { "dark", "bg-gray-900", "text-white" }
         ELSE { "bg-gray-50", "text-gray-900" }

\* Variant of ThemeIcon: the two icons are exchanged.
ThemeIcon_Exchanged ==
  IF isDarkMode THEN "Moon" ELSE "Sun"

\* The icon of the theme button: isDarkMode ? <Sun /> : <Moon />.
ThemeIcon ==
  IF isDarkMode THEN "Sun" ELSE "Moon"

\* C19: the root element carries the dark scheme exactly when isDarkMode is
\* true and the theme button shows Sun exactly when isDarkMode is true, Moon
\* otherwise, whatever section is active and whatever is hovered.
C19_SchemeFollowsThemeFlag ==
  /\ "dark" \in RootClasses <=> isDarkMode
  /\ "bg-gray-900" \in RootClasses <=> isDarkMode
  /\ "bg-gray-50" \in RootClasses <=> ~isDarkMode
  /\ ThemeIcon = "Sun" <=> isDarkMode
  /\ ThemeIcon = "Moon" <=> ~isDarkMode

C19_Witness ==
  /\ variant = "ipv4list"
  /\ lastOp.op = "toggleTheme"
  /\ isDarkMode
  /\ activeTab = "integration"
  /\ hoveredField # Null
  /\ ThemeIcon = "Sun"

\* C20: after a reload, from whatever state, the component is in its initial
\* state: nothing hovered, isDarkMode false in the IPv4 copies and true in
\* the IPv6 copies, and the active section "story" in the four-tab copies and
\* "ipv4-header" in the three-tab copy.
C20_ReloadRestoresInitialState ==
  lastOp.op = "reload" =>
    /\ hoveredField = Null
    /\ hoveredLayer = NullLayer
    /\ isDarkMode <=> variant \in { "ipv6copy", "ipv6page" }
    /\ activeTab = IF Len(TabsTriggers(variant)) = 4 THEN "story"
                   ELSE "ipv4-header"
    /\ "dark" \in RootClasses <=> variant \in { "ipv6copy", "ipv6page" }

C20_Witness ==
  /\ lastOp.op = "reload"
  /\ lastOp.field # Null
  /\ lastOp.layer # NullLayer
  /\ lastOp.tab # DefaultTab(variant)
  /\ hoveredField = Null
  /\ activeTab = DefaultTab(variant)

\* The values the state variables of the component can hold.
WellFormed ==
  /\ variant \in Variants
  /\ activeTab \in Range(TabsTriggers(variant))
  /\ hoveredField \in {Null} \cup { Fields(variant)[i].name :
                                      i \in DOMAIN Fields(variant) }
  /\ hoveredLayer \in {NullLayer} \cup 1..7
  /\ isDarkMode \in BOOLEAN
  /\ closureDark \in BOOLEAN
  /\ Len(osiArray) = 7

ViewOf(v, tab, field, layer, dark) ==
  [ highlighted |->
      IF tab = HeaderTab(v) /\ (v \in ListVariants \/ Truthy(field))
      THEN { i \in DOMAIN Fields(v) : Fields(v)[i].name = field }
      ELSE {},
    layers |->
      IF tab = "osi-model"
      THEN { i \in DOMAIN osiLayers(v) : osiLayers(v)[i].number = layer }
      ELSE {},
    panel |-> v \notin ListVariants /\ tab = HeaderTab(v) /\ Truthy(field),
    scheme |-> IF dark THEN "dark" ELSE "light" ]

\* The same four parts of the view as the component shows them now.
CurrentView ==
  [ highlighted |-> HighlightedFields,
    layers |-> EmphasizedLayers,
    panel |-> PanelRendered,
    scheme |-> IF "dark" \in RootClasses THEN "dark" ELSE "light" ]

C23_ClickHighlightsField ==
  \A i \in DOMAIN DiagramCells(variant) :
    ( /\ variant \in ListVariants
      /\ lastOp.op = "clickField"
      /\ lastOp.field = DiagramCells(variant)[i].enter
      /\ pointer # Cell(i) )
    => HighlightedFields = Named(lastOp.field)

\* C24: a step of setHoveredField (pointer enter or leave on a diagram cell)
\* leaves hoveredLayer, isDarkMode and the active section unchanged; a step
\* of setHoveredLayer leaves hoveredField, isDarkMode and the active section
\* unchanged; toggleTheme leaves hoveredField, hoveredLayer and the active
\* section unchanged; selectSection leaves hoveredField, hoveredLayer and
\* isDarkMode unchanged.
C24_EachOperationOwnVariable ==
  [][ /\ ( /\ lastOp'.op \in { "enterField", "leaveField" }
           /\ \/ \E i \in DOMAIN DiagramCells(variant) : MouseEnterField(i)
              \/ MouseLeaveField )
         => UNCHANGED << hoveredLayer, isDarkMode, activeTab >>
      /\ ( /\ lastOp'.op \in { "enterLayer", "leaveLayer" }
           /\ \/ \E i \in DOMAIN osiLayers(variant) : MouseEnterLayer(i)
              \/ MouseLeaveLayer )
         => UNCHANGED << hoveredField, isDarkMode, activeTab >>
      /\ ( lastOp'.op = "toggleTheme" /\ toggleTheme )
         => UNCHANGED << hoveredField, hoveredLayer, activeTab >>
      /\ ( /\ lastOp'.op = "selectSection"
           /\ \E t \in Range(TabsTriggers(variant)) : SelectSection(t) )
         => UNCHANGED << hoveredField, hoveredLayer, isDarkMode >>
    ]_vars

C24_Witness ==
  /\ lastOp.op = "enterLayer"
  /\ hoveredLayer = lastOp.layer
  /\ hoveredField # Null
  /\ isDarkMode # InitialDarkMode(variant)
  /\ activeTab = "osi-model"

\* C25: selecting a section keeps hoveredField and hoveredLayer; when the
\* header section is selected from another one while hoveredField is set,
\* the explanation of that field is highlighted at once with the pointer
\* over no element, and likewise the row of hoveredLayer when the OSI Model
\* section is selected from another one.
C25_SectionChangeKeepsHover ==
  [][ \A t \in Range(TabsTriggers(variant)) :
        ( lastOp'.op = "selectSection" /\ SelectSection(t) ) =>
          /\ hoveredField' = hoveredField
          /\ hoveredLayer' = hoveredLayer
          /\ ( t # activeTab /\ t = HeaderTab(variant) /\ hoveredField # Null )
             => /\ pointer' = NoElement
                /\ HighlightedFields' = Named(hoveredField)
                /\ HighlightedFields' # {}
                /\ variant \notin ListVariants => PanelRendered'
          /\ ( t # activeTab /\ t = "osi-model" /\ hoveredLayer # NullLayer )
             => /\ pointer' = NoElement
                /\ EmphasizedLayers' =
                     { i \in DOMAIN osiLayers(variant) :
                         osiLayers(variant)[i].number = hoveredLayer }
                /\ EmphasizedLayers' # {}
    ]_vars

C25_Witness ==
  /\ lastOp.op = "selectSection"
  /\ lastOp.tab = HeaderTab(variant)
  /\ activeTab = HeaderTab(variant)
  /\ pointer = NoElement
  /\ hoveredField = "Flags"
  /\ HighlightedFields # {}
  /\ hoveredLayer # NullLayer

(***************************************************************************)
(* Pointer events delivered out of order.                                  *)
(***************************************************************************)
\* Variant of LeaveAfterEnter: the leave handler clears the hover only when
\* the field it belongs to is still the hovered one.
LeaveAfterEnter_Checked(i) ==
  /\ TabMounted(HeaderTab(variant))
  /\ i \in DOMAIN DiagramCells(variant)
  /\ pointer.kind = "cell"
  /\ pointer # Cell(i)
  /\ hoveredField' = DiagramCells(variant)[i].enter
  /\ pointer' = Cell(i)
  /\ lastOp' = Op("leaveAfterEnter", DiagramCells(variant)[i].enter,
                  NullLayer, Null)
  /\ UNCHANGED << variant, activeTab, hoveredLayer, isDarkMode, closureDark,
                  nToggles >>
  /\ Render

\* The pointer moves from the cell it is over to the i-th cell and the two
\* events arrive in the order enter(i-th cell), leave(old cell): both
\* handlers run in the same dispatch, onMouseEnter's setHoveredField(name)
\* first and onMouseLeave's setHoveredField(null) last, so the value of the
\* leave handler is the one that stays.
LeaveAfterEnter(i) ==
  /\ TabMounted(HeaderTab(variant))
  /\ i \in DOMAIN DiagramCells(variant)
  /\ pointer.kind = "cell"
  /\ pointer # Cell(i)
  /\ setHoveredField(DiagramCells(variant)[pointer.idx].leave)
  /\ pointer' = Cell(i)
  /\ lastOp' = Op("leaveAfterEnter", DiagramCells(variant)[i].enter,
                  NullLayer, Null)
  /\ UNCHANGED << variant, activeTab, hoveredLayer, isDarkMode, closureDark,
                  nToggles >>
  /\ Render

NextReordered ==
  \/ Next
  \/ \E i \in DOMAIN DiagramCells(variant) : LeaveAfterEnter(i)

SpecReordered ==
  Init /\ [][NextReordered]_vars

\* The name set by the cell the pointer is over, none when it is over no
\* cell.
PointerField ==
  IF pointer.kind = "cell" THEN DiagramCells(variant)[pointer.idx].enter
  ELSE Null

\* C26: after a pointer enter or leave delivered in order (leave of the old
\* cell before enter of the new one) hoveredField is the name of the cell the
\* pointer is over, or none when it is over no cell; after a leave delivered
\* behind the enter of the next cell, hoveredField is none and no explanation
\* is highlighted although the pointer is over that cell.
C26_HoverFollowsPointerInOrder ==
  /\ lastOp.op \in { "enterField", "leaveField" }
     => /\ hoveredField = PointerField
        /\ HighlightedFields = Named(PointerField)
  /\ lastOp.op = "leaveAfterEnter"
     => /\ pointer.kind = "cell"
        /\ PointerField = lastOp.field
        /\ hoveredField = Null
        /\ HighlightedFields = {}

C26_Witness ==
  /\ lastOp.op = "leaveAfterEnter"
  /\ pointer.kind = "cell"
  /\ PointerField = "Flags"
  /\ hoveredField = Null

\* The diagram cells whose onMouseEnter sets hoveredField to x.
CellsNaming(x) ==
  { c \in DOMAIN DiagramCells(variant) : DiagramCells(variant)[c].enter = x }

\* C27: every entry of the dataset has exactly one diagram cell whose
\* pointer-enter handler sets hoveredField to the entry's name and every cell
\* names an entry; hoveredField holds none or a name of the dataset, and
\* while the header diagram is shown each entry can be made the hovered one
\* by one pointer-enter event.
C27_CellsMatchDataset ==
  /\ \A f \in DOMAIN Fields(variant) :
       Cardinality(CellsNaming(Fields(variant)[f].name)) = 1
  /\ \A c \in DOMAIN DiagramCells(variant) :
       Cardinality(Named(DiagramCells(variant)[c].enter)) = 1
  /\ hoveredField # Null => Named(hoveredField) # {}
  /\ ( TabMounted(HeaderTab(variant)) /\ pointer.kind = "none" )
     => \A f \in DOMAIN Fields(variant) :
          \E c \in CellsNaming(Fields(variant)[f].name) :
            ENABLED ( MouseEnterField(c)
                      /\ hoveredField' = Fields(variant)[f].name )

C27_Witness ==
  /\ variant = "ipv6page"
  /\ lastOp.op = "enterField"
  /\ hoveredField = "Extension Headers"
  /\ CellsNaming(hoveredField) = { pointer.idx }
  /\ Cardinality(Named(hoveredField)) = 1

(***************************************************************************)
(* The bit grid of the three-tab IPv4 copy.                                *)
(***************************************************************************)
\* grid-cols-32: the number of columns of the ruler and of every row.
GridColumns ==
  32

\* Variant of gridColSpans: Flags drawn four columns wide and Fragment Offset
\* twelve, the row still filling the grid.
gridColSpans_FlagsFourWide ==
  << 4, 4, 8, 16,  16, 4, 12,  8, 8, 16,  32,  32,  32 >>

\* The col-span-N class of each cell of the grid, in document order.
gridColSpans ==
  << 4, 4, 8, 16,  16, 3, 13,  8, 8, 16,  32,  32,  32 >>

\* The row (the <div className="grid grid-cols-32 ..."> element) each cell
\* of the grid is a child of.
gridRowOf ==
  << 1, 1, 1, 1,  2, 2, 2,  3, 3, 3,  4,  5,  6 >>

\* Array.from({ length: 32 }, (_, i) => ...): the text of the i-th ruler
\* cell, {i % 8 === 0 ? i : ""}; a number is rendered as its digits.
RulerLabel(i) ==
  IF i % 8 = 0 THEN ToString(i) ELSE ""

\* The text the dataset uses for a width of n bits.
BitsText(n) ==
  ToString(n) \o " bits"

RECURSIVE SumOver(_, _)
\* The sum of f[i] over the indices i in S.
SumOver(f, S) ==
  IF S = {} THEN 0
  ELSE LET i == CHOOSE j \in S : TRUE
       IN  f[i] + SumOver(f, S \ {i})

\* The indices of the cells of row r.
CellsOfRow(r) ==
  { c \in DOMAIN gridRowOf : gridRowOf[c] = r }

\* C28: in the three-tab IPv4 copy the column span of each fixed-width field
\* is the bit width its dataset entry declares, the spans of every row sum
\* to 32, the ruler labels exactly the positions 0, 8, 16 and 24 of 0..31,
\* and the panel of a hovered fixed-width cell prints the width the cell
\* spans.
C28_SpansEqualBitWidths ==
  variant = "ipv4grid" =>
    /\ DOMAIN gridColSpans = DOMAIN DiagramCells(variant)
    /\ \A c \in 1..12 :
         \A f \in Named(DiagramCells(variant)[c].enter) :
           Fields(variant)[f].bits = BitsText(gridColSpans[c])
    /\ \A r \in 1..6 : SumOver(gridColSpans, CellsOfRow(r)) = GridColumns
    /\ { i \in 0..(GridColumns - 1) : RulerLabel(i) # "" } = { 0, 8, 16, 24 }
    /\ \A i \in { 0, 8, 16, 24 } : RulerLabel(i) = ToString(i)
    /\ ( lastOp.op = "enterField" /\ pointer.idx \in 1..12 )
       => /\ PanelContent # << >>
          /\ PanelContent[1].bits = BitsText(gridColSpans[pointer.idx])

C28_Witness ==
  /\ variant = "ipv4grid"
  /\ lastOp.op = "enterField"
  /\ hoveredField = "Fragment Offset"
  /\ gridColSpans[pointer.idx] = 13
  /\ PanelContent[1].bits = "13 bits"

====
